---- MODULE Spec2Model ----
(***************************************************************************)
(* Model of the runnable programs of the book "Python distributed          *)
(* programming" found in the sources:                                      *)
(*   - the mpi4py point-to-point examples (send a Python object, send a    *)
(*     NumPy ndarray, Master-Worker),                                      *)
(*   - the Ray Train train_func (per-epoch checkpoint and report).         *)
(* One program is launched per behaviour (prog); the processes of that     *)
(* program interleave freely.                                              *)
(***************************************************************************)
EXTENDS Integers, Sequences, FiniteSets, TLC

\* ---- bounds ----
MaxSize == 3        \* largest mpirun -np for the Master-Worker example
MaxCount == 1       \* largest data_count drawn by a worker (source: randint(100))
MaxWorkers == 2     \* largest ScalingConfig(num_workers=...)

\* ---- program constants ----
NumEpochs == 10     \* for epoch in range(10)
P2PSize == 2        \* mpirun -np 2 python send-py-object.py
ArrayLen == 10      \* np.arange(10, ...), np.empty(10, ...)

Progs == {"master_worker", "send_py_object", "send_ndarray", "train"}

VARIABLES
    prog,       \* which program was launched
    size,       \* comm.Get_size() / world size
    eager,      \* TRUE when the MPI library buffers a standard-mode send
    pc,         \* rank -> position in the program
    chan,       \* <<src, dst>> -> FIFO of messages in flight
    data,       \* rank -> the variable `data` of that process
    data_count, \* rank -> np.random.randint(100) after np.random.seed(rank)
    i,          \* Master loop counter of `for i in range(size - 1)`
    status,     \* Master: sequence of status.Get_source() values printed
    barrier,    \* ranks that have entered comm.Barrier()
    epoch,      \* train worker -> loop variable epoch
    sampler,    \* train worker -> epoch last given to sampler.set_epoch
    tmpdir,     \* train worker -> state of temp_checkpoint_dir
    storage,    \* checkpoints uploaded to persistent storage: <<worker, epoch>>
    reports,    \* train worker -> number of ray.train.report calls returned
    stdout      \* sequence of metrics printed by print(metrics)

vars == <<prog, size, eager, pc, chan, data, data_count, i, status, barrier,
          epoch, sampler, tmpdir, storage, reports, stdout>>

AllRanks == 0 .. (MaxSize - 1)
Ranks == 0 .. (size - 1)
Pairs == AllRanks \X AllRanks
NoData == <<>>

EmptyChan == [p \in Pairs |-> <<>>]

\* np.random.randint(100, size=data_count): an array of data_count values
RandomData(n) == [k \in 1 .. n |-> 0]

mpiVars == <<chan, data, i, status, barrier>>
trainVars == <<epoch, sampler, tmpdir, storage, reports, stdout>>

\* ------------------------------------------------------------------------
\* mpi4py primitives
\* ------------------------------------------------------------------------

\* a library that lets a later message overtake an earlier one of the same pair
PostFront(src, dst, msg) == chan' = [chan EXCEPT ![<<src, dst>>] = <<msg>> \o @]

\* comm.send(obj, dest): the message is handed to the library
Post(src, dst, msg) == chan' = [chan EXCEPT ![<<src, dst>>] = Append(@, msg)]

\* a standard-mode blocking send returns once the message is buffered (eager)
\* or once the matching receive has taken it (rendezvous)
SendComplete(src, dst) == eager \/ chan[<<src, dst>>] = <<>>

\* comm.recv(source=src): messages of one (source, dest) pair do not overtake
CanRecv(src, dst) == chan[<<src, dst>>] /= <<>>

Take(src, dst) == chan' = [chan EXCEPT ![<<src, dst>>] = Tail(@)]

\* ------------------------------------------------------------------------
\* Case 3: Master-Worker
\* ------------------------------------------------------------------------
Master == size - 1

\* Worker: np.random.seed(rank); data_count = ...; data = ...; comm.send(...)
WorkerSend(r) ==
    /\ prog = "master_worker"
    /\ r \in Ranks /\ r < size - 1
    /\ pc[r] = "start"
    /\ data' = [data EXCEPT ![r] = RandomData(data_count[r])]
    /\ Post(r, Master, [source |-> r, obj |-> RandomData(data_count[r])])
    /\ pc' = [pc EXCEPT ![r] = "send"]
    /\ UNCHANGED <<prog, size, eager, data_count, i, status, barrier>>
    /\ UNCHANGED trainVars

\* Worker: comm.send returns, print(...), falls through to comm.Barrier()
WorkerSendReturn(r) ==
    /\ prog = "master_worker"
    /\ r \in Ranks /\ r < size - 1
    /\ pc[r] = "send"
    /\ SendComplete(r, Master)
    /\ pc' = [pc EXCEPT ![r] = "barrier"]
    /\ UNCHANGED <<prog, size, eager, data_count>>
    /\ UNCHANGED mpiVars
    /\ UNCHANGED trainVars

\* Master: one iteration of `for i in range(size - 1)`:
\* data = comm.recv(source=MPI.ANY_SOURCE, status=status); print(...)
MasterRecv(src) ==
    /\ prog = "master_worker"
    /\ pc[Master] = "start"
    /\ i < size - 1
    /\ src \in Ranks
    /\ CanRecv(src, Master)
    /\ data' = [data EXCEPT ![Master] = Head(chan[<<src, Master>>]).obj]
    /\ status' = Append(status, Head(chan[<<src, Master>>]).source)
    /\ Take(src, Master)
    /\ i' = i + 1
    /\ UNCHANGED <<prog, size, eager, pc, data_count, barrier>>
    /\ UNCHANGED trainVars

\* a Master whose loop is one iteration short: for i in range(size - 2)
MasterLoopEndEarly ==
    /\ prog = "master_worker"
    /\ pc[Master] = "start"
    /\ i >= size - 2
    /\ pc' = [pc EXCEPT ![Master] = "barrier"]
    /\ UNCHANGED <<prog, size, eager, data_count>>
    /\ UNCHANGED mpiVars
    /\ UNCHANGED trainVars

\* Master: range(size - 1) is exhausted, the loop ends
MasterLoopEnd ==
    /\ prog = "master_worker"
    /\ pc[Master] = "start"
    /\ i >= size - 1
    /\ pc' = [pc EXCEPT ![Master] = "barrier"]
    /\ UNCHANGED <<prog, size, eager, data_count>>
    /\ UNCHANGED mpiVars
    /\ UNCHANGED trainVars

\* comm.Barrier(): the process enters the collective
BarrierEnter(r) ==
    /\ prog = "master_worker"
    /\ r \in Ranks
    /\ pc[r] = "barrier"
    /\ barrier' = barrier \cup {r}
    /\ pc' = [pc EXCEPT ![r] = "in_barrier"]
    /\ UNCHANGED <<prog, size, eager, data_count, chan, data, i, status>>
    /\ UNCHANGED trainVars

\* comm.Barrier() returns once every process of the communicator has entered
BarrierExit(r) ==
    /\ prog = "master_worker"
    /\ r \in Ranks
    /\ pc[r] = "in_barrier"
    /\ barrier = Ranks
    /\ pc' = [pc EXCEPT ![r] = "done"]
    /\ UNCHANGED <<prog, size, eager, data_count>>
    /\ UNCHANGED mpiVars
    /\ UNCHANGED trainVars

\* ------------------------------------------------------------------------
\* Case 1: send a Python object (pickled by comm.send, unpickled by comm.recv)
\* ------------------------------------------------------------------------
\* data = {'a': 7, 'b': 3.14}; 3.14 is kept as the pair <<314, 100>>
PyObject == [a |-> <<7, 1>>, b |-> <<314, 100>>]

\* pickle.dumps of a dict: the stream of its (key, value) items
Dumps(d) ==
    LET keys == DOMAIN d
        RECURSIVE Items(_)
        Items(ks) == IF ks = {} THEN <<>>
                     ELSE LET k == CHOOSE x \in ks : TRUE
                          IN  <<<<k, d[k]>>>> \o Items(ks \ {k})
    IN  Items(keys)

\* pickle.loads: rebuild the dict from the stream of items
Loads(s) ==
    [k \in {s[j][1] : j \in 1 .. Len(s)} |->
        LET j == CHOOSE n \in 1 .. Len(s) : s[n][1] = k IN s[j][2]]

\* rank 0: data = {...}; comm.send(data, dest=1)
ObjSend ==
    /\ prog = "send_py_object"
    /\ pc[0] = "start"
    /\ 1 \in Ranks
    /\ data' = [data EXCEPT ![0] = PyObject]
    /\ Post(0, 1, [source |-> 0, obj |-> Dumps(PyObject)])
    /\ pc' = [pc EXCEPT ![0] = "send"]
    /\ UNCHANGED <<prog, size, eager, data_count, i, status, barrier>>
    /\ UNCHANGED trainVars

\* rank 0: comm.send returns; print; the process ends
ObjSendReturn ==
    /\ prog = "send_py_object"
    /\ pc[0] = "send"
    /\ SendComplete(0, 1)
    /\ pc' = [pc EXCEPT ![0] = "done"]
    /\ UNCHANGED <<prog, size, eager, data_count>>
    /\ UNCHANGED mpiVars
    /\ UNCHANGED trainVars

\* rank 1: data = comm.recv(source=0); print; the process ends
ObjRecv ==
    /\ prog = "send_py_object"
    /\ pc[1] = "start"
    /\ CanRecv(0, 1)
    /\ data' = [data EXCEPT ![1] = Loads(Head(chan[<<0, 1>>]).obj)]
    /\ Take(0, 1)
    /\ pc' = [pc EXCEPT ![1] = "done"]
    /\ UNCHANGED <<prog, size, eager, data_count, i, status, barrier>>
    /\ UNCHANGED trainVars

\* ------------------------------------------------------------------------
\* Case 2: send a NumPy ndarray (buffer-based Send / Recv)
\* ------------------------------------------------------------------------
\* np.arange(10, dtype=...)
Arange(dtype) == [dtype |-> dtype, vals |-> [k \in 1 .. ArrayLen |-> k - 1]]

\* np.empty(10, dtype=...): the contents are whatever the memory held
Garbage == {0, 77}
Empty(dtype, g) == [dtype |-> dtype, vals |-> [k \in 1 .. ArrayLen |-> g]]

\* the array of the n-th Send / Recv of the program: int ('i') then float64
DtypeOf(n) == IF n = 1 THEN "i" ELSE "float64"

\* rank 0: data = np.arange(10, dtype); comm.Send(data, dest=1)
NdSend(n) ==
    /\ prog = "send_ndarray"
    /\ pc[0] = (IF n = 1 THEN "start" ELSE "second")
    /\ data' = [data EXCEPT ![0] = Arange(DtypeOf(n))]
    /\ Post(0, 1, [source |-> 0, obj |-> Arange(DtypeOf(n))])
    /\ pc' = [pc EXCEPT ![0] = (IF n = 1 THEN "send" ELSE "send2")]
    /\ UNCHANGED <<prog, size, eager, data_count, i, status, barrier>>
    /\ UNCHANGED trainVars

\* rank 0: comm.Send returns; print; go on to the next statement
NdSendReturn(n) ==
    /\ prog = "send_ndarray"
    /\ pc[0] = (IF n = 1 THEN "send" ELSE "send2")
    /\ SendComplete(0, 1)
    /\ pc' = [pc EXCEPT ![0] = (IF n = 1 THEN "second" ELSE "done")]
    /\ UNCHANGED <<prog, size, eager, data_count>>
    /\ UNCHANGED mpiVars
    /\ UNCHANGED trainVars

\* rank 1: data = np.empty(10, dtype)
NdEmpty(n) ==
    /\ prog = "send_ndarray"
    /\ pc[1] = (IF n = 1 THEN "start" ELSE "second")
    /\ \E g \in Garbage : data' = [data EXCEPT ![1] = Empty(DtypeOf(n), g)]
    /\ pc' = [pc EXCEPT ![1] = (IF n = 1 THEN "recv" ELSE "recv2")]
    /\ UNCHANGED <<prog, size, eager, data_count, chan, i, status, barrier>>
    /\ UNCHANGED trainVars

\* rank 1: comm.Recv(data, source=0) fills the buffer with the oldest message
\* of rank 0; the buffer keeps its own dtype
NdRecv(n) ==
    /\ prog = "send_ndarray"
    /\ pc[1] = (IF n = 1 THEN "recv" ELSE "recv2")
    /\ CanRecv(0, 1)
    /\ data' = [data EXCEPT ![1] =
                  [dtype |-> data[1].dtype, vals |-> Head(chan[<<0, 1>>]).obj.vals]]
    /\ status' = Append(status, Head(chan[<<0, 1>>]).obj.dtype)
    /\ Take(0, 1)
    /\ pc' = [pc EXCEPT ![1] = (IF n = 1 THEN "second" ELSE "done")]
    /\ UNCHANGED <<prog, size, eager, data_count, i, barrier>>
    /\ UNCHANGED trainVars

\* ------------------------------------------------------------------------
\* Ray Train: train_func, run by every worker of the TorchTrainer
\* ------------------------------------------------------------------------
tr(w) == prog = "train" /\ w \in Ranks

\* model / optimizer / data loader are prepared, the epoch loop is entered
TrainSetup(w) ==
    /\ tr(w)
    /\ pc[w] = "start"
    /\ pc' = [pc EXCEPT ![w] = "loop"]
    /\ UNCHANGED <<prog, size, eager, data_count>>
    /\ UNCHANGED mpiVars
    /\ UNCHANGED trainVars

\* for epoch in range(10): set_epoch when world_size > 1, then the batches
TrainEpoch(w) ==
    /\ tr(w)
    /\ pc[w] = "loop"
    /\ epoch[w] < NumEpochs
    /\ sampler' = IF size > 1 THEN [sampler EXCEPT ![w] = epoch[w]] ELSE sampler
    /\ pc' = [pc EXCEPT ![w] = "trained"]
    /\ UNCHANGED <<prog, size, eager, data_count, epoch, tmpdir, storage, reports, stdout>>
    /\ UNCHANGED mpiVars

\* with tempfile.TemporaryDirectory() as temp_checkpoint_dir:
TempDirEnter(w) ==
    /\ tr(w)
    /\ pc[w] = "trained"
    /\ tmpdir' = [tmpdir EXCEPT ![w] = "empty"]
    /\ pc' = [pc EXCEPT ![w] = "in_with"]
    /\ UNCHANGED <<prog, size, eager, data_count, epoch, sampler, storage, reports, stdout>>
    /\ UNCHANGED mpiVars

\* a train_func that reports before anything was written to the directory
TorchSaveSkipped(w) ==
    /\ tr(w)
    /\ pc[w] = "in_with"
    /\ pc' = [pc EXCEPT ![w] = "saved"]
    /\ UNCHANGED <<prog, size, eager, data_count>>
    /\ UNCHANGED mpiVars
    /\ UNCHANGED trainVars

\* torch.save(model.module.state_dict(), temp_checkpoint_dir/model.pt)
TorchSave(w) ==
    /\ tr(w)
    /\ pc[w] = "in_with"
    /\ tmpdir' = [tmpdir EXCEPT ![w] = "saved"]
    /\ pc' = [pc EXCEPT ![w] = "saved"]
    /\ UNCHANGED <<prog, size, eager, data_count, epoch, sampler, storage, reports, stdout>>
    /\ UNCHANGED mpiVars

\* ray.train.report(metrics, checkpoint=Checkpoint.from_directory(dir)):
\* the directory's content is uploaded to persistent storage, then it returns
Report(w) ==
    /\ tr(w)
    /\ pc[w] = "saved"
    /\ storage' = storage \cup {<<w, epoch[w], tmpdir[w]>>}
    /\ reports' = [reports EXCEPT ![w] = @ + 1]
    /\ pc' = [pc EXCEPT ![w] = "reported"]
    /\ UNCHANGED <<prog, size, eager, data_count, epoch, sampler, tmpdir, stdout>>
    /\ UNCHANGED mpiVars

\* the with block ends: the temporary directory is removed
TempDirExit(w) ==
    /\ tr(w)
    /\ pc[w] = "reported"
    /\ tmpdir' = [tmpdir EXCEPT ![w] = "none"]
    /\ pc' = [pc EXCEPT ![w] = "after_with"]
    /\ UNCHANGED <<prog, size, eager, data_count, epoch, sampler, storage, reports, stdout>>
    /\ UNCHANGED mpiVars

\* if get_world_rank() == 0: print(metrics); next iteration of the loop
PrintMetrics(w) ==
    /\ tr(w)
    /\ pc[w] = "after_with"
    /\ stdout' = IF w = 0 THEN Append(stdout, epoch[w]) ELSE stdout
    /\ epoch' = [epoch EXCEPT ![w] = @ + 1]
    /\ pc' = [pc EXCEPT ![w] = "loop"]
    /\ UNCHANGED <<prog, size, eager, data_count, sampler, tmpdir, storage, reports>>
    /\ UNCHANGED mpiVars

\* range(10) is exhausted: train_func returns
TrainReturn(w) ==
    /\ tr(w)
    /\ pc[w] = "loop"
    /\ epoch[w] >= NumEpochs
    /\ pc' = [pc EXCEPT ![w] = "done"]
    /\ UNCHANGED <<prog, size, eager, data_count>>
    /\ UNCHANGED mpiVars
    /\ UNCHANGED trainVars

\* ------------------------------------------------------------------------
Init ==
    /\ prog \in Progs
    /\ eager \in BOOLEAN
    /\ size \in CASE prog = "master_worker" -> 1 .. MaxSize
                  [] prog = "train" -> 1 .. MaxWorkers
                  [] OTHER -> {P2PSize}
    /\ pc = [r \in AllRanks |-> IF r < size THEN "start" ELSE "absent"]
    /\ chan = EmptyChan
    /\ data = [r \in AllRanks |-> NoData]
    /\ data_count \in [AllRanks -> 0 .. MaxCount]
    /\ \A r \in AllRanks : (prog /= "master_worker" \/ r >= size - 1) => data_count[r] = 0
    /\ i = 0
    /\ status = <<>>
    /\ barrier = {}
    /\ epoch = [r \in AllRanks |-> 0]
    /\ sampler = [r \in AllRanks |-> -1]
    /\ tmpdir = [r \in AllRanks |-> "none"]
    /\ storage = {}
    /\ reports = [r \in AllRanks |-> 0]
    /\ stdout = <<>>

Next ==
    \/ \E r \in AllRanks : WorkerSend(r)
    \/ \E r \in AllRanks : WorkerSendReturn(r)
    \/ \E src \in AllRanks : MasterRecv(src)
    \/ MasterLoopEnd
    \/ \E r \in AllRanks : BarrierEnter(r)
    \/ \E r \in AllRanks : BarrierExit(r)
    \/ ObjSend
    \/ ObjSendReturn
    \/ ObjRecv
    \/ \E n \in 1 .. 2 : NdSend(n)
    \/ \E n \in 1 .. 2 : NdSendReturn(n)
    \/ \E n \in 1 .. 2 : NdEmpty(n)
    \/ \E n \in 1 .. 2 : NdRecv(n)
    \/ \E w \in AllRanks : TrainSetup(w)
    \/ \E w \in AllRanks : TrainEpoch(w)
    \/ \E w \in AllRanks : TempDirEnter(w)
    \/ \E w \in AllRanks : TorchSave(w)
    \/ \E w \in AllRanks : Report(w)
    \/ \E w \in AllRanks : TempDirExit(w)
    \/ \E w \in AllRanks : PrintMetrics(w)
    \/ \E w \in AllRanks : TrainReturn(w)

Spec == Init /\ [][Next]_vars

\* every launched process is scheduled by the operating system: as long as
\* some process can take a step, a step is eventually taken
FairSpec == Spec /\ WF_vars(Next)

\* ------------------------------------------------------------------------
\* Properties
\* ------------------------------------------------------------------------
Count(s, x) == Cardinality({j \in 1 .. Len(s) : s[j] = x})

\* messages rank r has handed to comm.send so far: those still in flight to
\* the Master plus those the Master has received from r
Sends(r) == Len(chan[<<r, Master>>]) + Count(status, r)

MWWorkers == 0 .. (size - 2)

MWAllDone == \A r \in Ranks : pc[r] = "done"

MWSafe ==
    \* the Master has made i receives, never more than size - 1
    /\ Len(status) = i /\ i <= size - 1
    \* a worker sends nothing before its send and exactly one message after
    /\ \A r \in MWWorkers : Sends(r) = (IF pc[r] = "start" THEN 0 ELSE 1)
    \* nothing is ever addressed to a rank other than size - 1
    /\ \A q \in Pairs : q[2] /= Master => chan[q] = <<>>
    \* once the Master has left its loop it has made exactly size - 1
    \* receives, one from each worker
    /\ pc[Master] /= "start" =>
          /\ i = size - 1
          /\ \A r \in MWWorkers : Count(status, r) = 1
    \* a process is past the barrier only when all have entered it and no
    \* message is left undelivered
    /\ \A r \in Ranks : pc[r] = "done" =>
          /\ barrier = Ranks
          /\ \A q \in Pairs : chan[q] = <<>>

\* C21: in the Master-Worker example, for every size >= 1, the Master makes
\* exactly size-1 receives and gets exactly one message from each worker
\* 0..size-2 in any arrival order, every worker makes exactly one send to
\* rank size-1, and every process then passes comm.Barrier() and terminates:
\* none stays blocked in send, recv or the barrier.
MasterWorkerCompletes ==
    /\ [](prog = "master_worker" => MWSafe)
    /\ [](prog = "master_worker" => <>MWAllDone)

\* three processes, rendezvous sends, the message of worker 1 arrived before
\* that of worker 0, and all processes have terminated
MasterWorkerWitness ==
    /\ prog = "master_worker" /\ size = 3 /\ ~eager
    /\ status = <<1, 0>>
    /\ MWAllDone

P2PDone == pc[0] = "done" /\ pc[1] = "done"

\* Send / send calls rank 0 has made so far
P2PSent == CASE pc[0] = "start" -> 0
             [] pc[0] \in {"send", "second"} -> 1
             [] OTHER -> IF prog = "send_ndarray" THEN 2 ELSE 1

\* Recv / recv calls that have returned on rank 1
P2PReceived == CASE pc[1] \in {"start", "recv"} -> 0
                 [] pc[1] \in {"second", "recv2"} -> 1
                 [] OTHER -> IF prog = "send_ndarray" THEN 2 ELSE 1

ObjSafe ==
    \* a message is in flight exactly between the send and its one receive
    /\ Len(chan[<<0, 1>>]) = P2PSent - P2PReceived
    \* what rank 1 received is what rank 0 sent
    /\ pc[1] = "done" => data[1] = PyObject /\ data[1] = data[0]

NdSafe ==
    \* every Send is matched by one Recv: sent = in flight + received
    /\ Len(chan[<<0, 1>>]) = P2PSent - P2PReceived
    /\ Len(status) = P2PReceived
    \* the first Recv got the int array of the first Send
    /\ pc[1] = "second" => data[1] = Arange("i")
    /\ P2PReceived >= 1 => status[1] = "i"
    \* the second Recv got the float64 array of the second Send
    /\ pc[1] = "done" =>
          /\ data[1] = Arange("float64")
          /\ status = <<"i", "float64">>
          /\ data[1] = data[0]

\* C22: run with 2 processes, every blocking send of rank 0 is matched by
\* exactly one receive on rank 1 and the data received equals the data sent;
\* in the ndarray example the first Recv gets the int array and the second
\* Recv the float64 array, and both processes terminate.
PointToPointMatches ==
    /\ [](prog = "send_py_object" => ObjSafe)
    /\ [](prog = "send_ndarray" => NdSafe)
    /\ [](prog \in {"send_py_object", "send_ndarray"} => <>P2PDone)

\* the ndarray example has terminated after both Sends were buffered before
\* the first Recv: rank 1 holds the float64 array
PointToPointWitness ==
    /\ prog = "send_ndarray" /\ eager
    /\ P2PDone
    /\ data[1] = Arange("float64")
    /\ Len(status) = 2

\* worker w has called ray.train.report for its current epoch
ReportedThisEpoch(w) == pc[w] \in {"reported", "after_with"}

TrainWorkerSafe(w) ==
    \* epochs run 0, 1, ..., 9 and one report is made per epoch
    /\ epoch[w] \in 0 .. NumEpochs
    /\ reports[w] = epoch[w] + (IF ReportedThisEpoch(w) THEN 1 ELSE 0)
    \* the reports made so far are those of epochs 0 .. reports - 1, and each
    \* uploaded a directory to which the checkpoint had already been written
    /\ \A e \in 0 .. (NumEpochs - 1) :
          (<<w, e, "saved">> \in storage) <=> (e < reports[w])
    /\ \A c \in storage : c[1] = w => c[3] = "saved"
    \* the directory exists, with the checkpoint in it, from torch.save until
    \* report has returned; it is gone only outside the with block
    /\ pc[w] \in {"saved", "reported"} => tmpdir[w] = "saved"
    /\ tmpdir[w] = "none" => pc[w] \in {"start", "loop", "trained", "after_with", "done"}
    /\ pc[w] = "after_with" => <<w, epoch[w], "saved">> \in storage
    \* train_func returns after exactly 10 reports
    /\ pc[w] = "done" => reports[w] = NumEpochs

\* C23: in train_func every worker, for epoch 0..9 in increasing order,
\* writes the checkpoint to its temporary directory, then calls
\* ray.train.report with it exactly once for the epoch, and the directory is
\* deleted only after that report has returned; each worker makes exactly 10
\* reports and only the worker of world rank 0 prints the metrics.
TrainCheckpointOrder ==
    prog = "train" =>
        /\ \A w \in Ranks : TrainWorkerSafe(w)
        /\ Cardinality(storage) = reports[0] + (IF size > 1 THEN reports[1] ELSE 0)
                                   + (IF size > 2 THEN reports[2] ELSE 0)
        \* the printed metrics are those of rank 0 alone, in epoch order
        /\ Len(stdout) = epoch[0]
        /\ \A k \in 1 .. Len(stdout) : stdout[k] = k - 1

\* two workers have returned from train_func; rank 0 printed ten metrics
TrainCheckpointWitness ==
    /\ prog = "train" /\ size = 2
    /\ pc[0] = "done" /\ pc[1] = "done"
    /\ Len(stdout) = NumEpochs
    /\ Cardinality(storage) = 2 * NumEpochs
====
